---- MODULE Spec2Model ----
(***************************************************************************)
(* A model of expressions.py: the expression classes with their operator   *)
(* overloads and __str__, the iterative postvisitor, and the               *)
(* single-dispatch differentiate rules.                                    *)
(*                                                                         *)
(* Objects live in a heap, a sequence of nodes; a node's identity is its   *)
(* index.  Expression defines neither __eq__ nor __hash__, so the dict     *)
(* `visited` of postvisitor is keyed by identity, i.e. by heap index.      *)
(* Nodes are never assigned to after construction by any code of the       *)
(* file; constructing a node appends it to the heap.                       *)
(***************************************************************************)
EXTENDS Integers, Sequences, FiniteSets, TLC

VARIABLES heap,     \* the objects constructed so far, by identity
          pc,       \* "build" | "loop" | "done" | "raised"
          lastop,   \* the last host-level operator expression evaluated
          root,     \* postvisitor's argument expr
          kwargs,   \* postvisitor's **kwargs, a sequence of <<key, value>>
          stack,    \* postvisitor's local stack (top is the last element)
          visited,  \* postvisitor's local dict: node identity -> result
          calls,    \* history: how many times fn was invoked on each node
          base,     \* history: Len(heap) when postvisitor was called
          input,    \* history: the heap when postvisitor was called
          result,   \* the value postvisitor returned (0 before it returns)
          exc       \* the exception raised, [type, msg] (NoExc if none)

vars == <<heap, pc, lastop, root, kwargs, stack, visited, calls, base, input,
          result, exc>>

(***************************************************************************)
(* Bounds of the model.                                                    *)
(***************************************************************************)
MaxNodes == 3     \* nodes the host program builds before the traversal

(***************************************************************************)
(* Python values that reach the constructors and the overloads: a          *)
(* reference to an Expression, a number, a string, or nothing.             *)
(***************************************************************************)
ExprObj(i) == [kind |-> "expr", ref |-> i, num |-> 0, name |-> ""]
NumObj(n)  == [kind |-> "num",  ref |-> 0, num |-> n, name |-> ""]
StrObj(s)  == [kind |-> "str",  ref |-> 0, num |-> 0, name |-> s]
NoneObj    == [kind |-> "none", ref |-> 0, num |-> 0, name |-> ""]

\* The values the host program writes as literals and names.
HostNumbers == {5}
HostNames   == {"x", "y"}
HostValues  == {NumObj(n) : n \in HostNumbers} \cup {StrObj(s) : s \in HostNames}

\* The keyword arguments a caller passes to postvisitor.
KwargsChoices ==
    { << <<"var", "x">> >>,
      << <<"var", "y">> >>,
      << <<"var", "y">>, <<"other", "x">> >> }

(***************************************************************************)
(* The class hierarchy.                                                    *)
(***************************************************************************)
TerminalClasses == {"Terminal", "Number", "Symbol"}
OperatorClasses == {"Operator", "Add", "Sub", "Mul", "Div", "Pow"}

\* isinstance(node, Operator)
IsOperator(node) == node.tag \in OperatorClasses

\* The class attribute `precedence`.
precedence(tag) ==
    CASE tag = "Add" -> 1
      [] tag = "Sub" -> 1
      [] tag = "Mul" -> 2
      [] tag = "Div" -> 2
      [] tag = "Pow" -> 3
      [] OTHER       -> 0

\* The class attribute `symbol`.
symbol(tag) ==
    CASE tag = "Add" -> "+"
      [] tag = "Sub" -> "-"
      [] tag = "Mul" -> "*"
      [] tag = "Div" -> "/"
      [] tag = "Pow" -> "^"
      [] OTHER       -> ""

(***************************************************************************)
(* Construction.  A constructor returns the new heap, the new object's     *)
(* identity and the exception it raised, if any.                           *)
(***************************************************************************)
NoExc == [type |-> "", msg |-> ""]

New(h, node)        == [h |-> Append(h, node), r |-> Len(h) + 1, exc |-> NoExc]
Raise(h, type, msg) == [h |-> h, r |-> 0, exc |-> [type |-> type, msg |-> msg]]

\* str(type(value)) of a Python value.
TypeStr(value) ==
    CASE value.kind = "num" -> "<class 'int'>"
      [] value.kind = "str" -> "<class 'str'>"
      [] OTHER              -> "<class 'object'>"

\* Expression.__init__(self, *operands), reached from an Operator subclass.
Expression(h, tag, operands) ==
    New(h, [tag |-> tag, val |-> NoneObj, ops |-> operands])

\* Terminal.__init__(self, value)
Terminal(h, tag, value) ==
    New(h, [tag |-> tag, val |-> value, ops |-> << >>])

\* Number.__init__(self, value)
Number(h, value) ==
    IF value.kind # "num"
    THEN Raise(h, "TypeError", "Expected a number, got a " \o TypeStr(value) \o ".")
    ELSE Terminal(h, "Number", value)

\* Symbol.__init__(self, value)
Symbol(h, value) ==
    IF value.kind # "str"
    THEN Raise(h, "TypeError", "Expected a string, got " \o TypeStr(value) \o ".")
    ELSE Terminal(h, "Symbol", value)

Add(h, l, r) == Expression(h, "Add", <<l, r>>)
Sub(h, l, r) == Expression(h, "Sub", <<l, r>>)
Mul(h, l, r) == Expression(h, "Mul", <<l, r>>)
Div(h, l, r) == Expression(h, "Div", <<l, r>>)
Pow(h, l, r) == Expression(h, "Pow", <<l, r>>)

(***************************************************************************)
(* The operator overloads of Expression.  `self` is a node identity,       *)
(* `other` a Python value.                                                 *)
(***************************************************************************)
__add__(h, self, other) ==
    IF other.kind # "expr"
    THEN LET n == Number(h, other)
         IN  IF n.exc # NoExc THEN n ELSE Add(n.h, self, n.r)
    ELSE Add(h, self, other.ref)

__sub__(h, self, other) ==
    IF other.kind # "expr"
    THEN LET n == Number(h, other)
         IN  IF n.exc # NoExc THEN n ELSE Sub(n.h, self, n.r)
    ELSE Sub(h, self, other.ref)

__mul__(h, self, other) ==
    IF other.kind # "expr"
    THEN LET n == Number(h, other)
         IN  IF n.exc # NoExc THEN n ELSE Mul(n.h, self, n.r)
    ELSE Mul(h, self, other.ref)

__truediv__(h, self, other) ==
    IF other.kind # "expr"
    THEN LET n == Number(h, other)
         IN  IF n.exc # NoExc THEN n ELSE Div(n.h, self, n.r)
    ELSE Div(h, self, other.ref)

__pow__(h, self, other) ==
    IF other.kind # "expr"
    THEN LET n == Number(h, other)
         IN  IF n.exc # NoExc THEN n ELSE Pow(n.h, self, n.r)
    ELSE Pow(h, self, other.ref)

__radd__(h, self, other) ==
    LET n == Number(h, other)
    IN  IF n.exc # NoExc THEN n ELSE Add(n.h, n.r, self)

\* Mutant: the reflected subtraction builds its operands in forward order.
__rsub___swapped(h, self, other) ==
    LET n == Number(h, other)
    IN  IF n.exc # NoExc THEN n ELSE Sub(n.h, self, n.r)

__rsub__(h, self, other) ==
    LET n == Number(h, other)
    IN  IF n.exc # NoExc THEN n ELSE Sub(n.h, n.r, self)

__rmul__(h, self, other) ==
    LET n == Number(h, other)
    IN  IF n.exc # NoExc THEN n ELSE Mul(n.h, n.r, self)

__rtruediv__(h, self, other) ==
    LET n == Number(h, other)
    IN  IF n.exc # NoExc THEN n ELSE Div(n.h, n.r, self)

__rpow__(h, self, other) ==
    LET n == Number(h, other)
    IN  IF n.exc # NoExc THEN n ELSE Pow(n.h, n.r, self)

\* The five binary operations of the host language.
BinaryOps == {"+", "-", "*", "/", "**"}

\* `left OP right` with an Expression on the left: the forward method.
Forward(h, op, self, other) ==
    CASE op = "+"  -> __add__(h, self, other)
      [] op = "-"  -> __sub__(h, self, other)
      [] op = "*"  -> __mul__(h, self, other)
      [] op = "/"  -> __truediv__(h, self, other)
      [] op = "**" -> __pow__(h, self, other)

\* `left OP right` with a plain value on the left and an Expression on the
\* right: the value's own method does not handle an Expression, so the
\* reflected method of the right operand is called with the left one.
Reflected(h, op, self, other) ==
    CASE op = "+"  -> __radd__(h, self, other)
      [] op = "-"  -> __rsub__(h, self, other)
      [] op = "*"  -> __rmul__(h, self, other)
      [] op = "/"  -> __rtruediv__(h, self, other)
      [] op = "**" -> __rpow__(h, self, other)

(***************************************************************************)
(* __str__                                                                 *)
(***************************************************************************)
Digit(d) ==
    CASE d = 0 -> "0" [] d = 1 -> "1" [] d = 2 -> "2" [] d = 3 -> "3"
      [] d = 4 -> "4" [] d = 5 -> "5" [] d = 6 -> "6" [] d = 7 -> "7"
      [] d = 8 -> "8" [] d = 9 -> "9"

RECURSIVE NatStr(_)
NatStr(n) == IF n < 10 THEN Digit(n) ELSE NatStr(n \div 10) \o Digit(n % 10)

\* str(value) of a terminal's value: an int or a str.
PyStr(value) ==
    CASE value.kind = "num" ->
           IF value.num < 0 THEN "-" \o NatStr(-value.num) ELSE NatStr(value.num)
      [] value.kind = "str" -> value.name

\* Mutant: an operand of equal precedence is parenthesized too.
RECURSIVE Str_equal_precedence(_, _)
Str_equal_precedence(h, i) ==
    LET self == h[i] IN
    IF self.tag \in TerminalClasses
    THEN PyStr(self.val)
    ELSE LET left      == self.ops[1]
             right     == self.ops[2]
             left_str  == Str_equal_precedence(h, left)
             right_str == Str_equal_precedence(h, right)
             left_out  == IF IsOperator(h[left])
                             /\ precedence(h[left].tag) <= precedence(self.tag)
                          THEN "(" \o left_str \o ")" ELSE left_str
             right_out == IF IsOperator(h[right])
                             /\ precedence(h[right].tag) <= precedence(self.tag)
                          THEN "(" \o right_str \o ")" ELSE right_str
         IN  left_out \o " " \o symbol(self.tag) \o " " \o right_out

\* Terminal.__str__ and Operator.__str__, by the class of heap node i.
RECURSIVE Str(_, _)
Str(h, i) ==
    LET self == h[i] IN
    IF self.tag \in TerminalClasses
    THEN PyStr(self.val)
    ELSE LET left      == self.ops[1]
             right     == self.ops[2]
             left_str  == Str(h, left)
             right_str == Str(h, right)
             left_out  == IF IsOperator(h[left])
                             /\ precedence(h[left].tag) < precedence(self.tag)
                          THEN "(" \o left_str \o ")" ELSE left_str
             right_out == IF IsOperator(h[right])
                             /\ precedence(h[right].tag) < precedence(self.tag)
                          THEN "(" \o right_str \o ")" ELSE right_str
         IN  left_out \o " " \o symbol(self.tag) \o " " \o right_out

(***************************************************************************)
(* differentiate: the default implementation and the registered rules.     *)
(* `o` holds the identities of the operands' results, in operand order.    *)
(* The operands of the overloads used by the rules are Expressions or the  *)
(* int literals 1 and 2, so no constructor in a rule raises.               *)
(***************************************************************************)
\* kwargs.values()
KwValues(kw) == {kw[i][2] : i \in DOMAIN kw}

\* Mutant: a class without a rule is differentiated to zero.
differentiate_default_zero(h, expr, o, kw) == Number(h, NumObj(0))

differentiate_default(h, expr, o, kw) ==
    Raise(h, "NotImplementedError", "Cannot differentiate a " \o h[expr].tag)

differentiate_Number(h, expr, o, kw) == Number(h, NumObj(0))

differentiate_Symbol(h, expr, o, kw) ==
    IF h[expr].val.name \in KwValues(kw)
    THEN Number(h, NumObj(1))
    ELSE Number(h, NumObj(0))

differentiate_Add(h, expr, o, kw) == __add__(h, o[1], ExprObj(o[2]))

\* Mutant: the node is edited in place and returned.
differentiate_Sub_in_place(h, expr, o, kw) ==
    [h |-> [h EXCEPT ![expr].ops = o], r |-> expr, exc |-> NoExc]

differentiate_Sub(h, expr, o, kw) == __sub__(h, o[1], ExprObj(o[2]))

differentiate_Mul(h, expr, o, kw) ==
    LET a == __mul__(h, o[1], ExprObj(h[expr].ops[2]))
        b == __mul__(a.h, o[2], ExprObj(h[expr].ops[1]))
    IN  __add__(b.h, a.r, ExprObj(b.r))

\* Mutant: the quotient rule with the two products exchanged.
differentiate_Div_exchanged(h, expr, o, kw) ==
    LET a == __mul__(h, o[2], ExprObj(h[expr].ops[1]))
        b == __mul__(a.h, o[1], ExprObj(h[expr].ops[2]))
        s == __sub__(b.h, a.r, ExprObj(b.r))
        p == __pow__(s.h, h[expr].ops[2], NumObj(2))
    IN  __truediv__(p.h, s.r, ExprObj(p.r))

differentiate_Div(h, expr, o, kw) ==
    LET a == __mul__(h, o[1], ExprObj(h[expr].ops[2]))
        b == __mul__(a.h, o[2], ExprObj(h[expr].ops[1]))
        s == __sub__(b.h, a.r, ExprObj(b.r))
        p == __pow__(s.h, h[expr].ops[2], NumObj(2))
    IN  __truediv__(p.h, s.r, ExprObj(p.r))

differentiate_Pow(h, expr, o, kw) ==
    LET a == __mul__(h, o[1], ExprObj(h[expr].ops[2]))
        m == __sub__(a.h, h[expr].ops[2], NumObj(1))
        p == __pow__(m.h, h[expr].ops[1], ExprObj(m.r))
    IN  __mul__(p.h, a.r, ExprObj(p.r))

\* functools.singledispatch on type(expr)
differentiate(h, expr, o, kw) ==
    CASE h[expr].tag = "Number" -> differentiate_Number(h, expr, o, kw)
      [] h[expr].tag = "Symbol" -> differentiate_Symbol(h, expr, o, kw)
      [] h[expr].tag = "Add"    -> differentiate_Add(h, expr, o, kw)
      [] h[expr].tag = "Sub"    -> differentiate_Sub(h, expr, o, kw)
      [] h[expr].tag = "Mul"    -> differentiate_Mul(h, expr, o, kw)
      [] h[expr].tag = "Div"    -> differentiate_Div(h, expr, o, kw)
      [] h[expr].tag = "Pow"    -> differentiate_Pow(h, expr, o, kw)
      [] OTHER                  -> differentiate_default(h, expr, o, kw)

(***************************************************************************)
(* The host program: it builds expressions with the constructors and the   *)
(* overloaded operators, then calls postvisitor(expr, differentiate, ...)  *)
(* on the last expression it built.                                        *)
(***************************************************************************)
NoOp == [op |-> "", left |-> NoneObj, right |-> NoneObj, res |-> 0, pre |-> 0]

Init ==
    /\ heap = << >>
    /\ pc = "build"
    /\ lastop = NoOp
    /\ root = 0
    /\ kwargs = << >>
    /\ stack = << >>
    /\ visited = << >>
    /\ calls = << >>
    /\ base = 0
    /\ input = << >>
    /\ result = 0
    /\ exc = NoExc

\* The host takes the outcome c of a construction.
Built(c, op) ==
    /\ Len(heap) < MaxNodes
    /\ Len(c.h) <= MaxNodes
    /\ heap' = c.h
    /\ exc' = c.exc
    /\ pc' = IF c.exc # NoExc THEN "raised" ELSE "build"
    /\ lastop' = IF c.exc # NoExc THEN NoOp ELSE op
    /\ UNCHANGED <<root, kwargs, stack, visited, calls, base, input, result>>

HostNumber ==
    /\ pc = "build"
    /\ \E v \in HostValues : Built(Number(heap, v), NoOp)

HostSymbol ==
    /\ pc = "build"
    /\ \E v \in HostValues : Built(Symbol(heap, v), NoOp)

HostTerminal ==
    /\ pc = "build"
    /\ \E n \in HostNumbers : Built(Terminal(heap, "Terminal", NumObj(n)), NoOp)

HostOperator ==
    /\ pc = "build"
    /\ \E l, r \in DOMAIN heap : Built(Expression(heap, "Operator", <<l, r>>), NoOp)

\* left OP right, at least one of the two an Expression.
BinOp(h, op, left, right) ==
    IF left.kind = "expr"
    THEN Forward(h, op, left.ref, right)
    ELSE Reflected(h, op, right.ref, left)

HostBinOp ==
    /\ pc = "build"
    /\ \E op \in BinaryOps :
       \E left, right \in {ExprObj(i) : i \in DOMAIN heap} \cup HostValues :
          /\ left.kind = "expr" \/ right.kind = "expr"
          /\ LET c == BinOp(heap, op, left, right)
             IN  Built(c, [op |-> op, left |-> left, right |-> right,
                           res |-> c.r, pre |-> Len(heap)])

(***************************************************************************)
(* postvisitor(expr, fn, **kwargs) with fn = differentiate.                *)
(***************************************************************************)
\* The nodes of the expression graph under node i, i included.
RECURSIVE Nodes(_, _)
Nodes(h, i) ==
    {i} \cup UNION {Nodes(h, h[i].ops[k]) : k \in DOMAIN h[i].ops}

\* The host calls postvisitor on the last expression it built; objects that
\* are not part of that expression play no role and are left out.
Call ==
    /\ pc = "build"
    /\ heap # << >>
    /\ Nodes(heap, Len(heap)) = DOMAIN heap
    /\ \E kw \in KwargsChoices : kwargs' = kw
    /\ root' = Len(heap)
    /\ stack' = <<Len(heap)>>
    /\ visited' = << >>
    /\ calls' = [i \in DOMAIN heap |-> 0]
    /\ base' = Len(heap)
    /\ input' = heap
    /\ pc' = "loop"
    /\ lastop' = NoOp
    /\ UNCHANGED <<heap, result, exc>>

\* e = stack.pop()
Top(s)  == s[Len(s)]
Rest(s) == SubSeq(s, 1, Len(s) - 1)

\* Mutant: every operand counts as unvisited.
unvisited_children_all(h, vis, e) == h[e].ops

\* the list unvisited_children built by the for loop over e.operands
unvisited_children(h, vis, e) ==
    SelectSeq(h[e].ops, LAMBDA o : o \notin DOMAIN vis)

\* Mutant: the results are passed in reverse (stack) order.
OperandResults_reversed(h, vis, e) ==
    [i \in DOMAIN h[e].ops |-> vis[h[e].ops[Len(h[e].ops) + 1 - i]]]

\* *(visited[o] for o in e.operands)
OperandResults(h, vis, e) == [i \in DOMAIN h[e].ops |-> vis[h[e].ops[i]]]

\* visited[e] = value
Store(vis, e, value) ==
    [n \in DOMAIN vis \cup {e} |-> IF n = e THEN value ELSE vis[n]]

\* One iteration of the while loop whose `if unvisited_children` is taken.
Descend ==
    /\ pc = "loop"
    /\ stack # << >>
    /\ LET e == Top(stack)
           u == unvisited_children(heap, visited, e)
       IN  /\ u # << >>
           /\ stack' = Rest(stack) \o <<e>> \o u
    /\ UNCHANGED <<heap, pc, lastop, root, kwargs, visited, calls, base, input,
                   result, exc>>

\* Mutant: fn is applied as soon as the node is popped, an operand without
\* a result standing in for its result (visited.get(o, o)).
Visit_unordered ==
    /\ pc = "loop"
    /\ stack # << >>
    /\ LET e == Top(stack)
           o == [i \in DOMAIN heap[e].ops |->
                   IF heap[e].ops[i] \in DOMAIN visited
                   THEN visited[heap[e].ops[i]] ELSE heap[e].ops[i]]
           c == differentiate(heap, e, o, kwargs)
       IN  /\ c.exc = NoExc
           /\ heap' = c.h
           /\ visited' = Store(visited, e, c.r)
           /\ calls' = [calls EXCEPT ![e] = @ + 1]
           /\ stack' = Rest(stack)
    /\ UNCHANGED <<pc, lastop, root, kwargs, base, input, result, exc>>

\* One iteration whose else branch is taken and in which fn returns.
Visit ==
    /\ pc = "loop"
    /\ stack # << >>
    /\ LET e == Top(stack)
           c == differentiate(heap, e, OperandResults(heap, visited, e), kwargs)
       IN  /\ unvisited_children(heap, visited, e) = << >>
           /\ c.exc = NoExc
           /\ heap' = c.h
           /\ visited' = Store(visited, e, c.r)
           /\ calls' = [calls EXCEPT ![e] = @ + 1]
           /\ stack' = Rest(stack)
    /\ UNCHANGED <<pc, lastop, root, kwargs, base, input, result, exc>>

\* One iteration whose else branch is taken and in which fn raises: the
\* exception leaves postvisitor, nothing is stored and nothing is returned.
VisitRaises ==
    /\ pc = "loop"
    /\ stack # << >>
    /\ LET e == Top(stack)
           c == differentiate(heap, e, OperandResults(heap, visited, e), kwargs)
       IN  /\ unvisited_children(heap, visited, e) = << >>
           /\ c.exc # NoExc
           /\ heap' = c.h
           /\ exc' = c.exc
           /\ calls' = [calls EXCEPT ![e] = @ + 1]
           /\ stack' = Rest(stack)
           /\ pc' = "raised"
    /\ UNCHANGED <<lastop, root, kwargs, visited, base, input, result>>

\* The loop has ended: return visited[expr].
Return ==
    /\ pc = "loop"
    /\ stack = << >>
    /\ IF root \in DOMAIN visited
       THEN /\ result' = visited[root]
            /\ pc' = "done"
            /\ exc' = exc
       ELSE /\ result' = result
            /\ pc' = "raised"
            /\ exc' = [type |-> "KeyError", msg |-> ""]
    /\ UNCHANGED <<heap, lastop, root, kwargs, stack, visited, calls, base, input>>

Next ==
    \/ HostNumber
    \/ HostSymbol
    \/ HostTerminal
    \/ HostOperator
    \/ HostBinOp
    \/ Call
    \/ Descend
    \/ Visit
    \/ VisitRaises
    \/ Return

Spec == Init /\ [][Next]_vars

(***************************************************************************)
(* Properties.                                                             *)
(***************************************************************************)
\* The expression under node i as a value: two nodes have the same Tree
\* iff they are structurally equal.
RECURSIVE Tree(_, _)
Tree(h, i) ==
    [tag |-> h[i].tag, val |-> h[i].val,
     ops |-> [k \in DOMAIN h[i].ops |-> Tree(h, h[i].ops[k])]]

NumberTree(n)     == [tag |-> "Number", val |-> NumObj(n), ops |-> << >>]
SymbolTree(s)     == [tag |-> "Symbol", val |-> StrObj(s), ops |-> << >>]
OpTree(tag, l, r) == [tag |-> tag, val |-> NoneObj, ops |-> <<l, r>>]

InTraversal == pc = "loop" \/ pc = "done" \/ (pc = "raised" /\ base > 0)

RegisteredClasses == {"Number", "Symbol", "Add", "Sub", "Mul", "Div", "Pow"}

\* C1: in one postvisitor call fn is invoked exactly once per distinct node
\* instance: never more than once while the loop runs, and exactly once on
\* every node of the expression when the call returns.
C1_FnOncePerNode ==
    (InTraversal /\ \A n \in 1..base : heap[n].tag \in RegisteredClasses) =>
        \A n \in DOMAIN calls :
            /\ calls[n] <= 1
            /\ pc = "done" => calls[n] = 1

\* C2: fn has been applied to a node only if every operand of the node has
\* a stored result, and the set of visited nodes is closed under operands.
C2_PostOrder ==
    InTraversal =>
        /\ \A n \in DOMAIN visited :
              \A k \in DOMAIN heap[n].ops : heap[n].ops[k] \in DOMAIN visited
        /\ \A n \in DOMAIN calls :
              calls[n] > 0 =>
                 \A k \in DOMAIN heap[n].ops : heap[n].ops[k] \in DOMAIN visited

\* C2 witness: an operator node has its result while the loop is running.
C2_Witness ==
    /\ pc = "loop"
    /\ stack # << >>
    /\ \E n \in DOMAIN visited : heap[n].ops # << >>

\* The recursive reference R(n) = fn(n, R(operand 1), R(operand 2), **kw).
RECURSIVE Reference(_, _, _)
Reference(h, n, kw) ==
    LET ops == h[n].ops
        c1  == Reference(h, ops[1], kw)
        c2  == Reference(c1.h, ops[2], kw)
    IN  IF ops = << >> THEN differentiate(h, n, << >>, kw)
        ELSE IF c1.exc # NoExc THEN c1
        ELSE IF c2.exc # NoExc THEN c2
        ELSE differentiate(c2.h, n, <<c1.r, c2.r>>, kw)

\* C3: what postvisitor returns is the value of the recursive reference,
\* operand results in operand order and the same kwargs in every call.
C3_ReturnsReference ==
    pc = "done" =>
        LET c == Reference(input, root, kwargs)
        IN  /\ c.exc = NoExc
            /\ Tree(heap, result) = Tree(c.h, c.r)

\* C3 witness: a returned derivative of a difference whose two operand
\* results differ, so that the order of the results shows.
C3_Witness ==
    /\ pc = "done"
    /\ heap[root].tag = "Sub"
    /\ Tree(heap, heap[result].ops[1]) # Tree(heap, heap[result].ops[2])
    /\ \E n \in Nodes(heap, root) : heap[n].tag = "Symbol"

\* The height of node i: the longest chain of operands under it.
RECURSIVE Height(_, _)
Height(h, i) ==
    IF h[i].ops = << >> THEN 0
    ELSE 1 + (LET hs == {Height(h, h[i].ops[k]) : k \in DOMAIN h[i].ops}
              IN  CHOOSE m \in hs : \A x \in hs : x <= m)

\* The measure of the loop: the number of nodes without a result, then the
\* position in the current descent or unwinding of the stack.
Pending(vis) == Cardinality((1..base) \ DOMAIN vis)

Position(st, vis) ==
    IF st = << >> THEN 0
    ELSE IF Top(st) \in DOMAIN vis THEN base + 1 + Len(st)
    ELSE Height(input, Top(st))

\* C10: the loop terminates when fn returns. Every iteration after which
\* the loop goes on strictly decreases the measure (Pending, Position) in
\* the lexicographic order, so there is no infinite run of iterations;
\* while the loop runs a step is always possible; and when the stack is
\* empty the root has its result, so the final lookup does not fail and
\* the call returns visited[root].
C10_Terminates ==
    [][ /\ (pc = "loop" /\ pc' = "loop") =>
              \/ Pending(visited') < Pending(visited)
              \/ /\ Pending(visited') = Pending(visited)
                 /\ Position(stack', visited') < Position(stack, visited)
        /\ (pc' = "loop" /\ stack' = << >>) => root' \in DOMAIN visited'
        /\ pc' = "loop" => (ENABLED (Descend \/ Visit \/ VisitRaises \/ Return))'
        /\ (pc = "loop" /\ stack = << >>) =>
              (pc' = "done" /\ result' = visited[root])
      ]_vars

\* C10 witness: a call on a graph with a shared node has returned.
C10_Witness ==
    /\ pc = "done"
    /\ stack = << >>
    /\ \E n \in 1..base : heap[n].ops # << >> /\ heap[n].ops[1] = heap[n].ops[2]

\* The rule table: the derivative of a node of class tag from its operands'
\* derivatives o0, o1 and its original operands x0, x1.
RuleTree(tag, o0, o1, x0, x1) ==
    CASE tag = "Add" -> OpTree("Add", o0, o1)
      [] tag = "Sub" -> OpTree("Sub", o0, o1)
      [] tag = "Mul" -> OpTree("Add", OpTree("Mul", o0, x1), OpTree("Mul", o1, x0))
      [] tag = "Div" ->
           OpTree("Div",
                  OpTree("Sub", OpTree("Mul", o0, x1), OpTree("Mul", o1, x0)),
                  OpTree("Pow", x1, NumberTree(2)))
      [] tag = "Pow" ->
           OpTree("Mul",
                  OpTree("Mul", o0, x1),
                  OpTree("Pow", x0, OpTree("Sub", x1, NumberTree(1))))

\* C4: the result stored for every Number and operator node is the tree
\* of the rule table, and the derivative of x * x with respect to x
\* renders as "1 * x + 1 * x".
C4_RuleTable ==
    InTraversal =>
        /\ \A n \in DOMAIN visited :
              /\ heap[n].tag = "Number" =>
                    Tree(heap, visited[n]) = NumberTree(0)
              /\ heap[n].tag \in {"Add", "Sub", "Mul", "Div", "Pow"} =>
                    Tree(heap, visited[n]) =
                       RuleTree(heap[n].tag,
                                Tree(heap, visited[heap[n].ops[1]]),
                                Tree(heap, visited[heap[n].ops[2]]),
                                Tree(heap, heap[n].ops[1]),
                                Tree(heap, heap[n].ops[2]))
        /\ ( /\ pc = "done"
             /\ kwargs = << <<"var", "x">> >>
             /\ Tree(heap, root) = OpTree("Mul", SymbolTree("x"), SymbolTree("x")) )
           => Str(heap, result) = "1 * x + 1 * x"

\* C4 witness: the quotient rule has been applied to a quotient of two
\* different operands, one of them an operator, and the call has returned.
C4_Witness ==
    /\ pc = "done"
    /\ heap[root].tag = "Div"
    /\ heap[root].ops[1] # heap[root].ops[2]
    /\ \E k \in {1, 2} : heap[heap[root].ops[k]].ops # << >>

\* The name the derivative is taken with respect to.
Target(kw) == kw[CHOOSE i \in DOMAIN kw : kw[i][1] = "var"][2]

\* C5: the result of a Symbol is Number(1) iff its name is the target name,
\* Number(0) otherwise, whatever the other keywords carry.
C5_SymbolRule ==
    InTraversal =>
        \A n \in DOMAIN visited :
            heap[n].tag = "Symbol" =>
                Tree(heap, visited[n]) =
                    NumberTree(IF heap[n].val.name = Target(kwargs) THEN 1 ELSE 0)

\* The precedence and symbol table of the five operator variants.
VariantPrecedence(tag) ==
    CASE tag \in {"Add", "Sub"} -> 1
      [] tag \in {"Mul", "Div"} -> 2
      [] tag = "Pow"            -> 3

VariantSymbol(tag) ==
    CASE tag = "Add" -> "+" [] tag = "Sub" -> "-" [] tag = "Mul" -> "*"
      [] tag = "Div" -> "/" [] tag = "Pow" -> "^"

Variants == {"Add", "Sub", "Mul", "Div", "Pow"}

\* The rendering of operand c of parent p: in parentheses iff c is an
\* operator variant of strictly lower precedence than p.
Operand(h, p, c) ==
    IF h[c].tag \in Variants
       /\ VariantPrecedence(h[c].tag) < VariantPrecedence(h[p].tag)
    THEN "(" \o Str(h, c) \o ")"
    ELSE Str(h, c)

\* (x + y) * z and x * y + z
ExampleHeap ==
    << [tag |-> "Symbol", val |-> StrObj("x"), ops |-> << >>],
       [tag |-> "Symbol", val |-> StrObj("y"), ops |-> << >>],
       [tag |-> "Symbol", val |-> StrObj("z"), ops |-> << >>],
       [tag |-> "Add", val |-> NoneObj, ops |-> <<1, 2>>],
       [tag |-> "Mul", val |-> NoneObj, ops |-> <<4, 3>>],
       [tag |-> "Mul", val |-> NoneObj, ops |-> <<1, 2>>],
       [tag |-> "Add", val |-> NoneObj, ops |-> <<6, 3>>] >>

\* C6: every node of the five operator variants whose operands are
\* terminals or variants renders as "<left> <symbol> <right>", an operand
\* in parentheses iff it is an operator of strictly lower precedence.
C6_Rendering ==
    /\ \A i \in DOMAIN heap :
          ( /\ heap[i].tag \in Variants
            /\ \A k \in {1, 2} : heap[heap[i].ops[k]].tag # "Operator" )
          => Str(heap, i) =
                Operand(heap, i, heap[i].ops[1]) \o " " \o VariantSymbol(heap[i].tag)
                   \o " " \o Operand(heap, i, heap[i].ops[2])
    /\ Str(ExampleHeap, 5) = "(x + y) * z"
    /\ Str(ExampleHeap, 7) = "x * y + z"

\* C6 witness: a node whose left operand is an operator of lower
\* precedence and whose right operand is an operator of equal precedence.
C6_Witness ==
    \E i \in DOMAIN heap :
        /\ heap[i].tag \in Variants
        /\ \A k \in {1, 2} : heap[heap[i].ops[k]].tag \in Variants
        /\ precedence(heap[heap[i].ops[1]].tag) < precedence(heap[i].tag)
        /\ precedence(heap[heap[i].ops[2]].tag) = precedence(heap[i].tag)

\* The class each binary operation builds.
ClassOf(op) ==
    CASE op = "+" -> "Add" [] op = "-" -> "Sub" [] op = "*" -> "Mul"
      [] op = "/" -> "Div" [] op = "**" -> "Pow"

\* Node i stands for the written operand obj: obj itself if it is an
\* Expression, a Number made for it by this operation if it is a literal.
Stands(obj, i) ==
    IF obj.kind = "expr"
    THEN i = obj.ref
    ELSE /\ i > lastop.pre
         /\ heap[i] = [tag |-> "Number", val |-> obj, ops |-> << >>]

\* C7: after `left OP right` the node built is of OP's class and its
\* operands are the written operands in the written order, a literal
\* wrapped in a Number and an Expression taken as it is.
C7_SugarOrder ==
    (pc = "build" /\ lastop.op # "") =>
        /\ lastop.res = Len(heap)
        /\ heap[lastop.res].tag = ClassOf(lastop.op)
        /\ heap[lastop.res].val = NoneObj
        /\ Len(heap[lastop.res].ops) = 2
        /\ Stands(lastop.left, heap[lastop.res].ops[1])
        /\ Stands(lastop.right, heap[lastop.res].ops[2])
        /\ Len(heap) = lastop.pre + 1
              + (IF lastop.left.kind = "expr" THEN 0 ELSE 1)
              + (IF lastop.right.kind = "expr" THEN 0 ELSE 1)

\* C7 witness: 5 - e has been evaluated.
C7_Witness ==
    /\ pc = "build"
    /\ lastop.op = "-"
    /\ lastop.left = NumObj(5)
    /\ lastop.right.kind = "expr"

\* C8: a call on an expression with a node of a class without a rule does
\* not return; it ends with NotImplementedError naming the class of such a
\* node, and nothing is returned.
C8_Unsupported ==
    /\ pc = "done" => \A n \in 1..base : heap[n].tag \in RegisteredClasses
    /\ (pc = "loop" /\ stack = << >>) =>
          \A n \in 1..base : heap[n].tag \in RegisteredClasses
    /\ (pc = "raised" /\ base > 0) =>
          /\ exc.type = "NotImplementedError"
          /\ \E n \in Nodes(input, root) :
                /\ input[n].tag \notin RegisteredClasses
                /\ exc.msg = "Cannot differentiate a " \o input[n].tag
          /\ result = 0

\* C8 witness: the call failed after some nodes had been differentiated.
C8_Witness ==
    /\ pc = "raised"
    /\ exc.type = "NotImplementedError"
    /\ visited # << >>
    /\ \E n \in 1..base : heap[n].tag = "Operator"
    /\ \E n \in 1..base : heap[n].tag = "Terminal"

\* Node r is the result of the Mul, Div or Pow rule for node n and holds
\* n's own operands x0, x1 wherever the rule uses them.
HoldsOriginals(h, n, r) ==
    LET x0 == h[n].ops[1]
        x1 == h[n].ops[2]
        l  == h[r].ops[1]
        rr == h[r].ops[2]
    IN  CASE h[n].tag = "Mul" ->
               /\ h[l].ops[2] = x1
               /\ h[rr].ops[2] = x0
          [] h[n].tag = "Div" ->
               /\ h[h[l].ops[1]].ops[2] = x1
               /\ h[h[l].ops[2]].ops[2] = x0
               /\ h[rr].ops[1] = x1
          [] h[n].tag = "Pow" ->
               /\ h[l].ops[2] = x1
               /\ h[rr].ops[1] = x0
               /\ h[h[rr].ops[2]].ops[1] = x1
          [] OTHER -> TRUE

\* C9: during and after the call every node that existed when the call
\* was made is as it was, and the results of the Mul, Div and Pow rules
\* reference the original operand instances.
C9_InputUnchanged ==
    InTraversal =>
        /\ Len(heap) >= base
        /\ SubSeq(heap, 1, base) = input
        /\ \A n \in DOMAIN visited :
              /\ visited[n] > base
              /\ HoldsOriginals(heap, n, visited[n])

\* C9 witness: the call returned the derivative of a power whose operands
\* are operators, or failed after a product had been differentiated.
C9_Witness ==
    /\ \/ pc = "done" /\ heap[root].tag = "Pow"
       \/ pc = "raised" /\ \E n \in DOMAIN visited : heap[n].tag = "Mul"
    /\ Len(heap) > base
    /\ \E n \in DOMAIN visited : heap[n].tag = "Sub"

====
